---- MODULE Spec2Model ----
(***************************************************************************)
(* Model of backend/django/core/util.py: the queue fill / assignment       *)
(* subsystem.  The relational tables (Queue, Data, DataQueue,              *)
(* AssignedData) and the Redis lists are the state; every database query   *)
(* and every Redis command of a function is one atomic step of the worker  *)
(* that runs it, so that calls of different workers interleave between     *)
(* queries exactly as request handlers do.                                 *)
(***************************************************************************)
EXTENDS Integers, Sequences, FiniteSets, Bags

\* Python's None: a missing object, a NULL foreign key, an empty rpop.
None == 0

\* Bounds of the model.
NData == 2           \* unlabeled Data of the project (one more Data is labeled)
MaxListLen == 2      \* no init_redis_queues call that would make a list longer
MaxAssigned == 2     \* no assign_datum call once this many rows exist or are due
MaxCalls == 4        \* calls of a caller that keeps the outcomes

Workers == {"w1", "w2"}

VARIABLES
    workers,        \* the request handlers that run calls
    keep,           \* whether the caller keeps the outcomes of its calls (in log)
    enforced,       \* TRUE: the tables reject NULL foreign keys and repeated rows;
                    \* FALSE: not known, such an insert is stored or rejected
    queues,         \* Queue table: pk -> [project, user, length]
    dataProject,    \* Data table: pk -> project
    labelers,       \* Data.labelers: pk -> set of user pks
    dataqueue,      \* DataQueue rows: queue pk -> (data pk -> number of rows)
    assigneddata,   \* AssignedData rows: bag of [data, user, queue]
    redis,          \* settings.REDIS: queue pk -> list, index 1 is the left end
    pc,             \* worker -> position in the function it runs
    call,           \* worker -> [op, queue, user, project]: the call in progress
    current_queue_len,      \* fill_queue local
    queue_data,             \* fill_queue local (the sampled list)
    first_nonempty_queue,   \* assign_datum local
    data_id,                \* pop_queue local
    pipeline,               \* init_redis_queues local: queue pk -> the ids of
                            \* its lpush command (<<>> if it has none)
    ret,            \* worker -> [raised, value]: outcome of the finished call
    log             \* the outcomes the caller kept, in the order the calls ended

vars == <<workers, keep, enforced, queues, dataProject, labelers, dataqueue, assigneddata, redis, pc, call,
          current_queue_len, queue_data, first_nonempty_queue, data_id, pipeline, ret, log>>

tables == <<workers, keep, enforced, queues, dataProject, labelers>>
locals == <<current_queue_len, queue_data, first_nonempty_queue, data_id, pipeline>>

----------------------------------------------------------------------------
\* Helpers on sequences and sets.

Range(s) == {s[i] : i \in DOMAIN s}

Min(S) == CHOOSE x \in S : \A y \in S : x <= y

RECURSIVE SortedSeq(_)
SortedSeq(S) == IF S = {} THEN <<>> ELSE <<Min(S)>> \o SortedSeq(S \ {Min(S)})

\* All orderings of the rows a query without ORDER BY may return:
\* each pk of D as many times as rows(d).
RECURSIVE Orderings(_, _)
Orderings(D, rows) ==
    IF \A d \in D : rows[d] = 0 THEN {<<>>}
    ELSE UNION {{<<d>> \o t : t \in Orderings(D, [rows EXCEPT ![d] = rows[d] - 1])}
                : d \in {e \in D : rows[e] > 0}}

\* random.shuffle(results): any order of the same items.
Shuffle(s) == Orderings(Range(s), [d \in Range(s) |-> Cardinality({i \in DOMAIN s : s[i] = d})])

RECURSIVE SumRows(_, _)
SumRows(D, rows) == IF D = {} THEN 0
                    ELSE LET d == CHOOSE e \in D : TRUE IN rows[d] + SumRows(D \ {d}, rows)

Reverse(s) == [i \in 1..Len(s) |-> s[Len(s) + 1 - i]]

----------------------------------------------------------------------------
\* The tables.

Queues == DOMAIN queues
Data == DOMAIN dataProject

DataCountNone(q) == 0

\* queue.data.count(): the number of DataQueue rows of the queue.
DataCount(q) == SumRows(Data, dataqueue[q])

\* The pks of the Data that has a DataQueue row in some queue.
Queued == {d \in Data : \E q \in Queues : dataqueue[q][d] > 0}

\* AssignedData rows of a datum.
AssignedRows(d) == {r \in BagToSet(assigneddata) : r.data = d}
Assigned == {d \in Data : AssignedRows(d) # {}}

EligibleDataAnyLabel(project) ==
    SortedSeq({d \in Data : dataProject[d] = project /\ d \notin Queued})

EligibleDataAnyQueue(project) ==
    SortedSeq({d \in Data : dataProject[d] = project /\ labelers[d] = {}})

\* Data.objects.filter(project=queue.project, labelers=None, queues=None),
\* iterated in pk order.
EligibleData(project) ==
    SortedSeq({d \in Data : /\ dataProject[d] = project
                            /\ labelers[d] = {}
                            /\ d \notin Queued})

----------------------------------------------------------------------------
\* iter_sample: the set of outcomes of one call.  An outcome is
\* [err |-> TRUE] (ValueError) or [err |-> FALSE, results |-> list].

ValueError == [err |-> TRUE, results |-> <<>>]

\* "At a decreasing rate, replace random items": the items from 0-based
\* position i on, each with r = random.randint(0, i).
RECURSIVE Replace(_, _, _, _)
Replace(S, iterable, sample_len, i) ==
    IF i >= Len(iterable) THEN S
    ELSE Replace({IF r < sample_len THEN [res EXCEPT ![r + 1] = iterable[i + 1]] ELSE res
                    : r \in 0..i, res \in S},
                 iterable, sample_len, i + 1)

IterSampleTruncating(iterable, sample_len) ==
    IF sample_len > Len(iterable)
      THEN {[err |-> FALSE, results |-> res] : res \in Shuffle(iterable)}
    ELSE {[err |-> FALSE, results |-> res]
            : res \in Replace(Shuffle(SubSeq(iterable, 1, sample_len)),
                              iterable, sample_len, sample_len)}

IterSample(iterable, sample_len) ==
    IF sample_len > Len(iterable)
      THEN {ValueError}                  \* StopIteration while filling
    ELSE IF sample_len < 0
      \* range(sample_len) is empty and enumerate starts at sample_len < 0:
      \* random.randint(0, i) with i < 0 raises ValueError on the first item.
      THEN IF Len(iterable) > 0 THEN {ValueError}
           ELSE {[err |-> FALSE, results |-> <<>>]}
    ELSE {[err |-> FALSE, results |-> res]
            : res \in Replace(Shuffle(SubSeq(iterable, 1, sample_len)),
                              iterable, sample_len, sample_len)}

----------------------------------------------------------------------------
\* Redis list commands.

LPushFirstOnly(list, values) == <<values[1]>> \o list

LPushRight(list, values) == list \o values

\* LPUSH key v1 v2 ...: each value in turn becomes the new left end.
LPush(list, values) == Reverse(values) \o list

\* RPOP key: the value at the right end, None on an empty list.
RPopValue(list) == IF Len(list) = 0 THEN None ELSE list[Len(list)]
RPopRestPeek(list) == list
RPopRest(list) == IF Len(list) = 0 THEN list ELSE SubSeq(list, 1, Len(list) - 1)

----------------------------------------------------------------------------
\* Outcomes of a call.

Returned(v) == [raised |-> FALSE, value |-> v]
Raised == [raised |-> TRUE, value |-> None]
NoCall == [op |-> "", queue |-> None, user |-> None, project |-> None]

InFlight(op) == Cardinality({w \in Workers : call[w].op = op})

----------------------------------------------------------------------------
\* fill_queue(queue)

\* l.106: current_queue_len = queue.data.count()
FillQueue(w, q) ==
    /\ w \in workers
    /\ pc[w] = "idle"
    /\ call' = [call EXCEPT ![w] = [NoCall EXCEPT !.op = "fill_queue", !.queue = q]]
    /\ current_queue_len' = [current_queue_len EXCEPT ![w] = DataCount(q)]
    /\ pc' = [pc EXCEPT ![w] = "fill_sample"]
    /\ UNCHANGED <<tables, pipeline, dataqueue, assigneddata, redis, queue_data,
                   first_nonempty_queue, data_id, ret, log>>

\* l.122-125: iter_sample over the eligible Data; ValueError goes to the
\* except branch.
FillSample(w) ==
    /\ pc[w] = "fill_sample"
    /\ LET q == call[w].queue
       IN \E out \in IterSample(EligibleData(queues[q].project),
                                queues[q].length - current_queue_len[w]) :
            IF out.err
              THEN /\ pc' = [pc EXCEPT ![w] = "fill_all"]
                   /\ UNCHANGED queue_data
              ELSE /\ pc' = [pc EXCEPT ![w] = "fill_create"]
                   /\ queue_data' = [queue_data EXCEPT ![w] = out.results]
    /\ UNCHANGED <<tables, pipeline, dataqueue, assigneddata, redis, call, current_queue_len,
                   first_nonempty_queue, data_id, ret, log>>

FillAllNothing(w) ==
    /\ pc[w] = "fill_all"
    /\ queue_data' = [queue_data EXCEPT ![w] = <<>>]
    /\ pc' = [pc EXCEPT ![w] = "fill_create"]
    /\ UNCHANGED <<tables, pipeline, dataqueue, assigneddata, redis, call, current_queue_len,
                   first_nonempty_queue, data_id, ret, log>>

\* l.127: queue_data = Data.objects.filter(**data_filters), a lazy query
\* that runs when bulk_create consumes it.
FillAll(w) ==
    /\ pc[w] = "fill_all"
    /\ queue_data' = [queue_data EXCEPT ![w] = EligibleData(queues[call[w].queue].project)]
    /\ pc' = [pc EXCEPT ![w] = "fill_create"]
    /\ UNCHANGED <<tables, pipeline, dataqueue, assigneddata, redis, call, current_queue_len,
                   first_nonempty_queue, data_id, ret, log>>

\* The DataQueue rows after bulk_create of one row per item of the list.
BulkCreate(rows, list) ==
    [d \in DOMAIN rows |-> rows[d] + Cardinality({i \in DOMAIN list : list[i] = d})]

\* l.129-130: DataQueue.objects.bulk_create(...).  The model classes are not
\* part of util.py: where a (queue, data) pair would be repeated the insert
\* either adds the duplicate row or, under a uniqueness constraint, raises
\* and adds nothing.
FillCreate(w) ==
    /\ pc[w] = "fill_create"
    /\ LET q == call[w].queue
           after == BulkCreate(dataqueue[q], queue_data[w])
           repeats == \E d \in Data : after[d] > 1
       IN \/ /\ ~(enforced /\ repeats)
             /\ dataqueue' = [dataqueue EXCEPT ![q] = after]
             /\ ret' = [ret EXCEPT ![w] = Returned(None)]
          \/ /\ repeats
             /\ ret' = [ret EXCEPT ![w] = Raised]
             /\ UNCHANGED dataqueue
    /\ pc' = [pc EXCEPT ![w] = "done"]
    /\ UNCHANGED <<tables, assigneddata, redis, call, locals, log>>

----------------------------------------------------------------------------
\* init_redis_queues()

\* l.61-65: the lpush batches the pipeline collects, one per queue with
\* data; queue.data.all() has no ORDER BY.
Pipelines == 
    {p \in [Queues -> UNION {Orderings(Data, dataqueue[q]) : q \in Queues}] :
        \A q \in Queues : p[q] \in Orderings(Data, dataqueue[q])}

\* l.59-65: the loop over the queues reads the DataQueue rows and collects
\* the lpush commands; a queue without data gets none.
InitRedisQueues(w) ==
    /\ w \in workers
    /\ pc[w] = "idle"
    /\ \E p \in Pipelines : pipeline' = [pipeline EXCEPT ![w] = p]
    /\ call' = [call EXCEPT ![w] = [NoCall EXCEPT !.op = "init_redis_queues"]]
    /\ pc' = [pc EXCEPT ![w] = "init_execute"]
    /\ UNCHANGED <<tables, dataqueue, assigneddata, redis, current_queue_len,
                   queue_data, first_nonempty_queue, data_id, ret, log>>

\* l.67: pipeline.execute() sends the collected commands to Redis.
PipelineExecute(w) ==
    /\ pc[w] = "init_execute"
    /\ redis' = [q \in Queues |-> IF Len(pipeline[w][q]) > 0
                                    THEN LPush(redis[q], pipeline[w][q])
                                    ELSE redis[q]]
    /\ ret' = [ret EXCEPT ![w] = Returned(None)]
    /\ pc' = [pc EXCEPT ![w] = "done"]
    /\ UNCHANGED <<tables, dataqueue, assigneddata, call, locals, log>>

----------------------------------------------------------------------------
\* get_nonempty_queue(project, user)

NonemptyQueuesUncounted(project, user) ==
    {q \in Queues : queues[q].project = project /\ queues[q].user = user}

NonemptyQueuesAnyUser(project, user) ==
    {q \in Queues : queues[q].project = project /\ DataCount(q) > 0}

NonemptyQueuesSharedOnly(project, user) ==
    {q \in Queues : /\ queues[q].project = project
                    /\ queues[q].user = None
                    /\ DataCount(q) > 0}

\* project.queue_set.filter(user=user).annotate(data_count=Count('data'))
\*        .filter(data_count__gt=0)
NonemptyQueues(project, user) ==
    {q \in Queues : /\ queues[q].project = project
                    /\ queues[q].user = user
                    /\ DataCount(q) > 0}

\* .first() of a query without ORDER BY orders by pk.
First(S) == Min(S)

----------------------------------------------------------------------------
\* pop_queue(queue) and assign_datum(user, project)

\* The queue the worker's pop_queue works on.
PopTarget(w) == IF call[w].op = "pop_queue" THEN call[w].queue
                ELSE first_nonempty_queue[w]

\* A direct call of pop_queue(queue).
PopQueue(w, q) ==
    /\ w \in workers
    /\ pc[w] = "idle"
    /\ call' = [call EXCEPT ![w] = [NoCall EXCEPT !.op = "pop_queue", !.queue = q]]
    /\ pc' = [pc EXCEPT ![w] = "pop_rpop"]
    /\ UNCHANGED <<tables, dataqueue, assigneddata, redis, locals, ret, log>>

\* l.189, l.160-168: the call and the query for the user's queues.
AssignDatum(w, user, project) ==
    /\ w \in workers
    /\ pc[w] = "idle"
    /\ call' = [call EXCEPT ![w] = [NoCall EXCEPT !.op = "assign_datum",
                                                  !.user = user, !.project = project]]
    /\ LET nonempty_user_queues == IF user # None THEN NonemptyQueues(project, user)
                                   ELSE {}
       IN IF nonempty_user_queues # {}
            THEN /\ first_nonempty_queue' =
                        [first_nonempty_queue EXCEPT ![w] = First(nonempty_user_queues)]
                 /\ pc' = [pc EXCEPT ![w] = "pop_rpop"]
            ELSE /\ pc' = [pc EXCEPT ![w] = "get_shared"]
                 /\ UNCHANGED first_nonempty_queue
    /\ UNCHANGED <<tables, pipeline, dataqueue, assigneddata, redis, current_queue_len,
                   queue_data, data_id, ret, log>>

\* l.171-181, l.191-192: the query for the project's shared queues.
GetShared(w) ==
    /\ pc[w] = "get_shared"
    /\ LET nonempty_queues == NonemptyQueues(call[w].project, None)
       IN IF nonempty_queues # {}
            THEN /\ first_nonempty_queue' =
                        [first_nonempty_queue EXCEPT ![w] = First(nonempty_queues)]
                 /\ pc' = [pc EXCEPT ![w] = "pop_rpop"]
                 /\ UNCHANGED ret
            ELSE /\ ret' = [ret EXCEPT ![w] = Returned(None)]
                 /\ pc' = [pc EXCEPT ![w] = "done"]
                 /\ UNCHANGED first_nonempty_queue
    /\ UNCHANGED <<tables, pipeline, dataqueue, assigneddata, redis, call, current_queue_len,
                   queue_data, data_id, log>>

PopRpopRaising(w) ==
    /\ pc[w] = "pop_rpop"
    /\ LET q == PopTarget(w)
           v == RPopValue(redis[q])
       IN /\ redis' = [redis EXCEPT ![q] = RPopRest(redis[q])]
          /\ data_id' = [data_id EXCEPT ![w] = v]
          /\ IF v # None
               THEN /\ pc' = [pc EXCEPT ![w] = "pop_delete"]
                    /\ UNCHANGED ret
               ELSE /\ pc' = [pc EXCEPT ![w] = "done"]
                    /\ ret' = [ret EXCEPT ![w] = Raised]
    /\ UNCHANGED <<tables, pipeline, dataqueue, assigneddata, call, current_queue_len,
                   queue_data, first_nonempty_queue, log>>

\* l.141-144: data_id = settings.REDIS.rpop(queue.pk); None ends pop_queue.
PopRpop(w) ==
    /\ pc[w] = "pop_rpop"
    /\ LET q == PopTarget(w)
           v == RPopValue(redis[q])
       IN /\ redis' = [redis EXCEPT ![q] = RPopRest(redis[q])]
          /\ data_id' = [data_id EXCEPT ![w] = v]
          /\ IF v # None
               THEN /\ pc' = [pc EXCEPT ![w] = "pop_delete"]
                    /\ UNCHANGED ret
             ELSE IF call[w].op = "pop_queue"
               THEN /\ pc' = [pc EXCEPT ![w] = "done"]
                    /\ ret' = [ret EXCEPT ![w] = Returned(None)]
             ELSE /\ pc' = [pc EXCEPT ![w] = "assign_create"]
                  /\ UNCHANGED ret
    /\ UNCHANGED <<tables, pipeline, dataqueue, assigneddata, call, current_queue_len,
                   queue_data, first_nonempty_queue, log>>

\* l.146-149: the Data row is looked up and its DataQueue rows in this
\* queue are deleted.
PopDelete(w) ==
    /\ pc[w] = "pop_delete"
    /\ LET q == PopTarget(w)
       IN dataqueue' = [dataqueue EXCEPT ![q][data_id[w]] = 0]
    /\ IF call[w].op = "pop_queue"
         THEN /\ pc' = [pc EXCEPT ![w] = "done"]
              /\ ret' = [ret EXCEPT ![w] = Returned(data_id[w])]
         ELSE /\ pc' = [pc EXCEPT ![w] = "assign_create"]
              /\ UNCHANGED ret
    /\ UNCHANGED <<tables, assigneddata, redis, call, locals, log>>

\* The row assign_datum creates.
AssignedRow(w) == [data |-> data_id[w], user |-> call[w].user,
                   queue |-> first_nonempty_queue[w]]

\* l.195-197: AssignedData.objects.create(data=datum, user=user, queue=...)
\* and return datum.  The model classes are not part of util.py: a row with
\* a NULL data or user, or one that repeats an existing row, is either
\* stored or, under a NOT NULL / uniqueness constraint, raises.
AssignCreate(w) ==
    /\ pc[w] = "assign_create"
    /\ LET rejectable == \/ data_id[w] = None
                         \/ call[w].user = None
                         \/ BagIn(AssignedRow(w), assigneddata)
       IN \/ /\ ~(enforced /\ rejectable)
             /\ assigneddata' = assigneddata (+) SetToBag({AssignedRow(w)})
             /\ ret' = [ret EXCEPT ![w] = Returned(data_id[w])]
          \/ /\ rejectable
             /\ ret' = [ret EXCEPT ![w] = Raised]
             /\ UNCHANGED assigneddata
    /\ pc' = [pc EXCEPT ![w] = "done"]
    /\ UNCHANGED <<tables, dataqueue, redis, call, locals, log>>

\* The function returns (or raises): its locals are gone, the caller has
\* the outcome and the worker is free for the next call.
Return(w) ==
    /\ pc[w] = "done"
    /\ pc' = [pc EXCEPT ![w] = "idle"]
    /\ call' = [call EXCEPT ![w] = NoCall]
    /\ ret' = [ret EXCEPT ![w] = Returned(None)]
    /\ current_queue_len' = [current_queue_len EXCEPT ![w] = 0]
    /\ queue_data' = [queue_data EXCEPT ![w] = <<>>]
    /\ first_nonempty_queue' = [first_nonempty_queue EXCEPT ![w] = None]
    /\ data_id' = [data_id EXCEPT ![w] = None]
    /\ pipeline' = [pipeline EXCEPT ![w] = <<>>]
    /\ log' = IF keep THEN Append(log, [op |-> call[w].op, raised |-> ret[w].raised,
                                         value |-> ret[w].value])
                    ELSE log
    /\ UNCHANGED <<tables, dataqueue, assigneddata, redis>>

----------------------------------------------------------------------------
\* Callers.  The bounds of the model are guards of the calls.

InitWorkers(W, k, e) ==
    /\ workers = W
    /\ keep = k
    /\ enforced = e
    /\ pc = [w \in Workers |-> "idle"]
    /\ call = [w \in Workers |-> NoCall]
    /\ current_queue_len = [w \in Workers |-> 0]
    /\ queue_data = [w \in Workers |-> <<>>]
    /\ first_nonempty_queue = [w \in Workers |-> None]
    /\ data_id = [w \in Workers |-> None]
    /\ pipeline = [w \in Workers |-> <<>>]
    /\ ret = [w \in Workers |-> Returned(None)]
    /\ log = <<>>

\* A project (pk 1) with the queues Q and NData + 1 Data, the last of them
\* labeled if withLabeled; nothing queued, assigned or pushed.
InitProject(Q, withLabeled) ==
    /\ queues = Q
    /\ dataProject = [d \in 1..NData + 1 |-> 1]
    /\ labelers = [d \in 1..NData + 1 |-> IF withLabeled /\ d = NData + 1 THEN {2} ELSE {}]
    /\ dataqueue = [q \in DOMAIN Q |-> [d \in 1..NData + 1 |-> 0]]
    /\ assigneddata = EmptyBag
    /\ redis = [q \in DOMAIN Q |-> <<>>]

\* The same project after fill_queue calls and one init_redis_queues: every
\* unlabeled Data is in at most one queue, no queue is over its length and
\* each Redis list holds the data of its queue.
InitFilled(Q) ==
    /\ queues = Q
    /\ dataProject = [d \in 1..NData + 1 |-> 1]
    /\ labelers = [d \in 1..NData + 1 |-> IF d = NData + 1 THEN {2} ELSE {}]
    /\ \E where \in [1..NData -> {None} \cup DOMAIN Q] :
         /\ \A q \in DOMAIN Q : Cardinality({d \in 1..NData : where[d] = q}) <= Q[q].length
         /\ dataqueue = [q \in DOMAIN Q |->
                           [d \in 1..NData + 1 |-> IF d <= NData /\ where[d] = q THEN 1 ELSE 0]]
    /\ assigneddata = EmptyBag
    /\ redis \in [DOMAIN Q -> UNION {Orderings(1..NData + 1, dataqueue[q]) : q \in DOMAIN Q}]
    /\ \A q \in DOMAIN Q : redis[q] \in Orderings(1..NData + 1, dataqueue[q])

CallInitRedisQueues(w) ==
    /\ \A q \in Queues : Len(redis[q]) + DataCount(q) <= MaxListLen
    /\ InitRedisQueues(w)

\* init_redis_queues as a caller uses it to load an empty Redis.
LoadRedisQueues(w) ==
    /\ \A q \in Queues : redis[q] = <<>>
    /\ InitRedisQueues(w)

CallAssignDatum(w, user, project) ==
    /\ BagCardinality(assigneddata) + InFlight("assign_datum") < MaxAssigned
    /\ AssignDatum(w, user, project)

CallPopQueue(w, q) ==
    /\ Len(log) + InFlight("pop_queue") < MaxCalls
    /\ PopQueue(w, q)

PersonalAndShared == <<[project |-> 1, user |-> 1, length |-> 1],
                       [project |-> 1, user |-> None, length |-> 2]>>
TwoShared == <<[project |-> 1, user |-> None, length |-> 1],
               [project |-> 1, user |-> None, length |-> 2]>>

----------------------------------------------------------------------------
\* Spec: one caller makes fill_queue, init_redis_queues and assign_datum
\* calls one after the other, in any order, on a project with a queue of
\* user 1 and a shared queue.

Init ==
    /\ InitProject(PersonalAndShared, TRUE)
    /\ InitWorkers({"w1"}, FALSE, FALSE)

Next ==
    \E w \in Workers :
        \/ \E q \in Queues : FillQueue(w, q)
        \/ CallInitRedisQueues(w)
        \/ PipelineExecute(w)
        \/ \E user \in {None, 1} : CallAssignDatum(w, user, 1)
        \/ FillSample(w)
        \/ FillAll(w)
        \/ FillCreate(w)
        \/ GetShared(w)
        \/ PopRpop(w)
        \/ PopDelete(w)
        \/ AssignCreate(w)
        \/ Return(w)

Spec == Init /\ [][Next]_vars

\* SpecSync: the same caller, who calls init_redis_queues only while every
\* Redis list is empty, on tables that reject NULL foreign keys and
\* repeated rows.
InitSync ==
    /\ InitProject(PersonalAndShared, TRUE)
    /\ InitWorkers({"w1"}, FALSE, TRUE)

NextSync ==
    \E w \in Workers :
        \/ \E q \in Queues : FillQueue(w, q)
        \/ LoadRedisQueues(w)
        \/ PipelineExecute(w)
        \/ \E user \in {None, 1} : CallAssignDatum(w, user, 1)
        \/ FillSample(w)
        \/ FillAll(w)
        \/ FillCreate(w)
        \/ GetShared(w)
        \/ PopRpop(w)
        \/ PopDelete(w)
        \/ AssignCreate(w)
        \/ Return(w)

SpecSync == InitSync /\ [][NextSync]_vars

\* SpecShared: the same caller on a project with two shared queues.
InitShared ==
    /\ InitProject(TwoShared, TRUE)
    /\ InitWorkers({"w1"}, FALSE, FALSE)

SpecShared == InitShared /\ [][Next]_vars

----------------------------------------------------------------------------
\* SpecPop: two workers call pop_queue concurrently on one queue that was
\* filled to its length N and pushed: the Redis list holds N distinct ids.

InitPop ==
    /\ \E S \in SUBSET (1..NData + 1) :
         /\ queues = <<[project |-> 1, user |-> None, length |-> Cardinality(S)]>>
         /\ dataqueue = <<[d \in 1..NData + 1 |-> IF d \in S THEN 1 ELSE 0]>>
    /\ dataProject = [d \in 1..NData + 1 |-> 1]
    /\ labelers = [d \in 1..NData + 1 |-> {}]
    /\ assigneddata = EmptyBag
    /\ \E list \in Orderings(1..NData + 1, dataqueue[1]) : redis = <<list>>
    /\ InitWorkers(Workers, TRUE, FALSE)

NextPop ==
    \E w \in Workers :
        \/ CallPopQueue(w, 1)
        \/ PopRpop(w)
        \/ PopDelete(w)
        \/ Return(w)

SpecPop == InitPop /\ [][NextPop]_vars

----------------------------------------------------------------------------
\* SpecFill: two workers call fill_queue concurrently on the two shared
\* queues of a project with NData + 1 unlabeled Data.

InitFill ==
    /\ InitProject(TwoShared, FALSE)
    /\ InitWorkers(Workers, FALSE, FALSE)

NextFill ==
    \E w \in Workers :
        \/ \E q \in Queues : FillQueue(w, q)
        \/ FillSample(w)
        \/ FillAll(w)
        \/ FillCreate(w)
        \/ Return(w)

SpecFill == InitFill /\ [][NextFill]_vars

----------------------------------------------------------------------------
\* SpecRace: fill_queue calls on the two shared queues of a project with
\* NData + 1 unlabeled Data, made by one caller (one after the other) or by
\* two callers (concurrently).

InitRace ==
    /\ InitProject(TwoShared, FALSE)
    /\ \E W \in {{"w1"}, Workers} : InitWorkers(W, FALSE, FALSE)

SpecRace == InitRace /\ [][NextFill]_vars

----------------------------------------------------------------------------
\* SpecPools: one caller makes fill_queue, init_redis_queues (while every
\* Redis list is empty) and assign_datum calls one after the other, for
\* users None, 1 and 2 on project 1 and for user 1 on projects 2 and 3.  Project 1 has a queue of user 2 and a shared queue,
\* project 2 a shared queue, project 3 no queue; user 1 has no queue.  The
\* last Data item is of project 2, the others of project 1.

ThreePools == <<[project |-> 1, user |-> 2, length |-> 1],
                [project |-> 2, user |-> None, length |-> 2],
                [project |-> 1, user |-> None, length |-> 1]>>

InitPools ==
    /\ queues = ThreePools
    /\ dataProject = [d \in 1..NData + 1 |-> IF d = NData + 1 THEN 2 ELSE 1]
    /\ labelers = [d \in 1..NData + 1 |-> {}]
    /\ dataqueue = [q \in DOMAIN ThreePools |-> [d \in 1..NData + 1 |-> 0]]
    /\ assigneddata = EmptyBag
    /\ redis = [q \in DOMAIN ThreePools |-> <<>>]
    /\ InitWorkers({"w1"}, FALSE, FALSE)

NextPools ==
    \E w \in Workers :
        \/ \E q \in Queues : FillQueue(w, q)
        \/ LoadRedisQueues(w)
        \/ PipelineExecute(w)
        \/ \E user \in {None, 1, 2} : CallAssignDatum(w, user, 1)
        \/ \E project \in {2, 3} : CallAssignDatum(w, 1, project)
        \/ FillSample(w)
        \/ FillAll(w)
        \/ FillCreate(w)
        \/ GetShared(w)
        \/ PopRpop(w)
        \/ PopDelete(w)
        \/ AssignCreate(w)
        \/ Return(w)

SpecPools == InitPools /\ [][NextPools]_vars

----------------------------------------------------------------------------
\* SpecSample: the inputs of iter_sample as fill_queue makes them.  One
\* caller fills a shared queue of any length up to NData + 2 in a project of
\* NData + 1 Data of which any may be labeled: the iterable has 0 to
\* NData + 1 items and sample_len is 0 to NData + 2.

InitSample ==
    /\ \E length \in 0..NData + 2 :
         queues = <<[project |-> 1, user |-> None, length |-> length]>>
    /\ dataProject = [d \in 1..NData + 1 |-> 1]
    /\ labelers \in [1..NData + 1 -> {{}, {2}}]
    /\ dataqueue = <<[d \in 1..NData + 1 |-> 0]>>
    /\ assigneddata = EmptyBag
    /\ redis = <<<<>>>>
    /\ InitWorkers({"w1"}, FALSE, FALSE)

SpecSample == InitSample /\ [][NextFill]_vars

----------------------------------------------------------------------------
\* SpecFifo: a shared queue with any of the Data as members and an empty
\* Redis list.  Worker w1 calls init_redis_queues once; worker w2 calls
\* pop_queue, one call after the other, and keeps the outcomes.

InitFifo ==
    /\ queues = <<[project |-> 1, user |-> None, length |-> NData + 1]>>
    /\ dataProject = [d \in 1..NData + 1 |-> 1]
    /\ labelers = [d \in 1..NData + 1 |-> {}]
    /\ \E S \in SUBSET (1..NData + 1) :
         dataqueue = <<[d \in 1..NData + 1 |-> IF d \in S THEN 1 ELSE 0]>>
    /\ assigneddata = EmptyBag
    /\ redis = <<<<>>>>
    /\ InitWorkers(Workers, TRUE, FALSE)

LoadOnce(w) ==
    /\ \A i \in DOMAIN log : log[i].op # "init_redis_queues"
    /\ LoadRedisQueues(w)

NextFifo ==
    \/ LoadOnce("w1")
    \/ PipelineExecute("w1")
    \/ CallPopQueue("w2", 1)
    \/ PopRpop("w2")
    \/ PopDelete("w2")
    \/ \E w \in Workers : Return(w)

SpecFifo == InitFifo /\ [][NextFifo]_vars

----------------------------------------------------------------------------
\* SpecAssign: two workers call assign_datum concurrently on a project whose
\* queues were filled and pushed.

InitAssign ==
    /\ InitFilled(PersonalAndShared)
    /\ InitWorkers(Workers, FALSE, FALSE)

NextAssign ==
    \E w \in Workers :
        \/ \E user \in {None, 1} : CallAssignDatum(w, user, 1)
        \/ GetShared(w)
        \/ PopRpop(w)
        \/ PopDelete(w)
        \/ AssignCreate(w)
        \/ Return(w)

SpecAssign == InitAssign /\ [][NextAssign]_vars

----------------------------------------------------------------------------
\* SpecE2E: the end-to-end scenario.  A project with 5 unlabeled Data and
\* one shared queue of length 3; one caller calls fill_queue on the queue,
\* then init_redis_queues or not, and then assign_datum four times, keeping
\* the outcomes.

InitE2E ==
    /\ queues = <<[project |-> 1, user |-> None, length |-> 3]>>
    /\ dataProject = <<1, 1, 1, 1, 1>>
    /\ labelers = <<{}, {}, {}, {}, {}>>
    /\ dataqueue = <<<<0, 0, 0, 0, 0>>>>
    /\ assigneddata = EmptyBag
    /\ redis = <<<<>>>>
    /\ InitWorkers({"w1"}, TRUE, FALSE)

E2EFillQueue(w) ==
    /\ Len(log) = 0
    /\ FillQueue(w, 1)

E2EInitRedisQueues(w) ==
    /\ Len(log) = 1
    /\ InitRedisQueues(w)

E2EAssignDatum(w, user) ==
    /\ Len(log) >= 1
    /\ Cardinality({i \in DOMAIN log : log[i].op = "assign_datum"}) < 4
    /\ AssignDatum(w, user, 1)

NextE2E ==
    \E w \in Workers :
        \/ E2EFillQueue(w)
        \/ E2EInitRedisQueues(w)
        \/ PipelineExecute(w)
        \/ \E user \in {None, 1} : E2EAssignDatum(w, user)
        \/ FillSample(w)
        \/ FillCreate(w)
        \/ GetShared(w)
        \/ PopRpop(w)
        \/ PopDelete(w)
        \/ AssignCreate(w)
        \/ Return(w)

SpecE2E == InitE2E /\ [][NextE2E]_vars

----------------------------------------------------------------------------
\* Properties.

\* The data the finished pop_queue calls returned, and the workers that
\* hold a popped datum they have not returned yet.
LogData == {i \in DOMAIN log : log[i].value # None}
Holding == {w \in Workers : pc[w] \in {"pop_delete", "done"} /\ data_id[w] # None}

\* The members of a queue, the ids in its Redis list.
Members(q) == {d \in Data : dataqueue[q][d] > 0}
Listed(q) == Range(redis[q])

\* The number of AssignedData rows of a datum.
AssignedCount(d) == BagCardinality([r \in AssignedRows(d) |-> assigneddata[r]])

\* C1 (SpecPop): under any interleaving of pop_queue calls on a queue whose
\* Redis list held N distinct ids, no two calls return the same datum, no
\* datum is lost (the data returned, those popped and not yet returned and
\* those still listed are always N), no call raises, a call returns None
\* only once the list is empty, and when all calls have ended exactly N of
\* them returned a datum and the others None.
C1_PopExactlyOnce ==
    LET N == queues[1].length
    IN /\ \A i, j \in LogData : i # j => log[i].value # log[j].value
       /\ \A w \in Holding : \A i \in LogData : log[i].value # data_id[w]
       /\ \A v, w \in Holding : v # w => data_id[v] # data_id[w]
       /\ \A w \in Holding : data_id[w] \notin Listed(1)
       /\ \A i \in LogData : log[i].value \notin Listed(1)
       /\ Cardinality(LogData) + Cardinality(Holding) + Len(redis[1]) = N
       /\ \A i \in DOMAIN log : ~log[i].raised
       /\ \A i \in DOMAIN log : log[i].value = None => redis[1] = <<>>
       /\ \A w \in Workers : pc[w] = "done" /\ ret[w].value = None => redis[1] = <<>>
       /\ Len(log) = MaxCalls /\ N < MaxCalls => Cardinality(LogData) = N

\* C1 witness: all calls ended on a queue of NData + 1 ids: that many calls
\* returned a datum and a later one returned None.
C1_Witness ==
    /\ Len(log) = MaxCalls
    /\ queues[1].length = NData + 1
    /\ Cardinality(LogData) = NData + 1
    /\ \E i \in DOMAIN log : log[i].value = None

\* C2 (SpecSync): a Data item with an AssignedData row is a member of no queue
\* and in no Redis list, and fill_queue never selects such an item.
C2_AssignedNotQueued ==
    /\ \A d \in Assigned : d \notin Queued /\ \A q \in Queues : d \notin Listed(q)
    /\ \A w \in Workers : pc[w] = "fill_create" => Range(queue_data[w]) \cap Assigned = {}

\* C3 (SpecSync): when assign_datum has returned a datum d, d is in no Redis
\* list, has no DataQueue row and has exactly one AssignedData row, the one
\* that links it to the user and the queue it was popped from.
C3_AssignmentExclusive ==
    \A w \in Workers :
        (/\ pc[w] = "done"
         /\ call[w].op = "assign_datum"
         /\ ~ret[w].raised
         /\ ret[w].value # None)
        => LET d == ret[w].value
           IN /\ \A q \in Queues : d \notin Listed(q)
              /\ d \notin Queued
              /\ AssignedCount(d) = 1
              /\ BagIn([data |-> d, user |-> call[w].user,
                        queue |-> first_nonempty_queue[w]], assigneddata)

\* C4 (Spec): when fill_queue(queue) has ended, the ids in the queue's Redis
\* list are the data of the queue's DataQueue rows.
C4_FillPushes ==
    \A w \in Workers :
        (pc[w] = "done" /\ call[w].op = "fill_queue" /\ ~ret[w].raised)
        => Listed(call[w].queue) = Members(call[w].queue)

\* C5 (SpecAssign): when the pop of the selected queue returned None,
\* assign_datum returns None, creates no AssignedData row, deletes no
\* DataQueue row and pops nothing more.
C5_EmptyPopIsSilent ==
    [][\A w \in Workers :
          (pc[w] = "assign_create" /\ data_id[w] = None /\ pc'[w] = "done")
          => /\ ret'[w] = Returned(None)
             /\ assigneddata' = assigneddata
             /\ dataqueue' = dataqueue
             /\ redis' = redis]_vars

\* C6 (Spec): while a queue of the project bound to user u has DataQueue
\* rows, the queue assign_datum(u, project) selects and pops is bound to u,
\* also when a shared queue has rows; a shared queue is selected for u only
\* when no queue bound to u has rows.
C6_PersonalFirst ==
    \A w \in Workers :
        (call[w].op = "assign_datum" /\ pc[w] \in {"pop_rpop", "pop_delete"})
        => LET u == call[w].user
               sel == first_nonempty_queue[w]
               personal == {q \in Queues : /\ queues[q].project = call[w].project
                                           /\ queues[q].user = u
                                           /\ Members(q) # {}}
           IN /\ u # None /\ personal # {} => sel \in personal
              /\ queues[sel].user = None => u = None \/ personal = {}
              /\ queues[sel].user \in {u, None}

\* C6 witness: user 1 has popped a datum from the personal queue while the
\* shared queue has rows and a nonempty Redis list.
C6_Witness ==
    \E w \in Workers :
        /\ call[w].op = "assign_datum" /\ call[w].user = 1
        /\ pc[w] = "pop_delete" /\ data_id[w] # None
        /\ first_nonempty_queue[w] = 1
        /\ Members(1) # {} /\ Members(2) # {} /\ redis[2] # <<>>

\* C7 (SpecFill): fill_queue selects nothing, and so creates no DataQueue
\* row, whenever queue.length minus the membership count is <= 0.
C7_NoOpWhenFull ==
    \A w \in Workers :
        (/\ call[w].op = "fill_queue"
         /\ pc[w] \in {"fill_create", "done"}
         /\ queues[call[w].queue].length - current_queue_len[w] <= 0)
        => queue_data[w] = <<>>

\* C8 (Spec): when the m eligible Data of the project are fewer than
\* remaining = queue.length - membership count, fill_queue selects exactly
\* those m items, ends without raising, has added one DataQueue row for
\* each of them and nothing else, and the queue stays under its length.
C8_TakeAllFallback ==
    \A w \in Workers :
        call[w].op = "fill_queue"
        => LET q == call[w].queue
               remaining == queues[q].length - current_queue_len[w]
               eligible == {d \in Data : /\ dataProject[d] = queues[q].project
                                         /\ labelers[d] = {}
                                         /\ \A k \in Queues : dataqueue[k][d] = 0}
           IN /\ (pc[w] = "fill_create" /\ Cardinality(eligible) < remaining)
                 => /\ Range(queue_data[w]) = eligible
                    /\ Len(queue_data[w]) = Cardinality(eligible)
              /\ (pc[w] = "done" /\ Len(queue_data[w]) < remaining)
                 => /\ ~ret[w].raised
                    /\ \A d \in Range(queue_data[w]) : dataqueue[q][d] = 1
                    /\ DataCount(q) = current_queue_len[w] + Len(queue_data[w])
                    /\ DataCount(q) < queues[q].length

\* C8 witness: a fill of the shared queue (length 2, empty) has ended with
\* the one eligible item added.
C8_Witness ==
    \E w \in Workers :
        /\ call[w].op = "fill_queue" /\ pc[w] = "done" /\ ~ret[w].raised
        /\ call[w].queue = 2 /\ current_queue_len[w] = 0
        /\ Len(queue_data[w]) = 1
        /\ DataCount(2) = 1

\* C9 (SpecE2E): after fill_queue(Q) Q has 3 members and 2 Data remain
\* eligible; the three assign_datum calls that follow return 3 distinct
\* data and the fourth returns None.
C9_EndToEnd ==
    (\A i \in DOMAIN log : log[i].op # "init_redis_queues")
    => /\ (Len(log) = 1 /\ \A w \in Workers : pc[w] = "idle")
          => DataCount(1) = 3 /\ Len(EligibleData(1)) = 2
       /\ \A i \in DOMAIN log : ~log[i].raised
       /\ \A i \in DOMAIN log : i \in 2..4 => log[i].value # None
       /\ \A i, j \in DOMAIN log : i \in 2..4 /\ j \in 2..4 /\ i # j
                                    => log[i].value # log[j].value
       /\ Len(log) >= 5 => log[5].value = None

\* C10 (SpecShared): the queue assign_datum selects is never one with an
\* empty Redis list while another queue of the same pool (same project and
\* user) has a nonempty Redis list.
C10_SelectsByFastQueue ==
    \A w \in Workers :
        (call[w].op = "assign_datum" /\ pc[w] = "pop_rpop"
         /\ redis[first_nonempty_queue[w]] = <<>>)
        => ~\E q \in Queues :
               /\ queues[q].project = queues[first_nonempty_queue[w]].project
               /\ queues[q].user = queues[first_nonempty_queue[w]].user
               /\ redis[q] # <<>>

\* C11 (SpecFill): there are never two DataQueue rows with the same
\* (queue, data) pair, also when fill_queue calls on one queue overlap.
C11_NoDuplicateMembership ==
    \A q \in Queues : \A d \in Data : dataqueue[q][d] <= 1

C13_FillRace ==
    workers = {"w1"}
    => /\ \A d \in Data : Cardinality({q \in Queues : dataqueue[q][d] > 0}) <= 1
       /\ \A w \in Workers : pc[w] = "fill_create"
                             => Range(queue_data[w]) \cap Queued = {}

\* C13 witness: two overlapping fill_queue calls on different queues have
\* both selected the same item while it was in no queue, and both have
\* inserted their rows: the item is a member of both queues.
C13_Witness ==
    /\ workers = Workers
    /\ \A w \in Workers : call[w].op = "fill_queue" /\ pc[w] = "done" /\ ~ret[w].raised
    /\ call["w1"].queue # call["w2"].queue
    /\ \E d \in Data : /\ d \in Range(queue_data["w1"]) \cap Range(queue_data["w2"])
                       /\ dataqueue[1][d] = 1
                       /\ dataqueue[2][d] = 1

\* C14 (Spec): a Data item that has a labeler is never selected by
\* fill_queue and never has a DataQueue row, for any sequence of fills and
\* assignments.
C14_LabeledNeverQueued ==
    \A d \in Data :
        labelers[d] # {}
        => /\ \A q \in Queues : dataqueue[q][d] = 0
           /\ \A w \in Workers : d \notin Range(queue_data[w])

\* C14 witness: a fill that had room for more than the unlabeled Data took
\* all of them and left the labeled item out.
C14_Witness ==
    \E w \in Workers :
        /\ call[w].op = "fill_queue" /\ pc[w] = "done" /\ ~ret[w].raised
        /\ queue_data[w] # <<>>
        /\ Len(queue_data[w]) < queues[call[w].queue].length - current_queue_len[w]
        /\ \E d \in Data : labelers[d] # {} /\ dataProject[d] = queues[call[w].queue].project
        /\ \A d \in Data : labelers[d] = {} <=> \E q \in Queues : dataqueue[q][d] > 0

\* C15 (SpecPools): assign_datum(user, project) called while the project has
\* no queue, or while none of its queues has a DataQueue row, finds no queue
\* in either query, returns None and creates no AssignedData row (and pops
\* and deletes nothing).
C15_EmptyProject ==
    [][\A w \in Workers :
          (/\ pc[w] \in {"idle", "get_shared"}
           /\ call'[w].op = "assign_datum"
           /\ \A q \in Queues : queues[q].project = call'[w].project => Members(q) = {})
          => /\ pc'[w] \in {"get_shared", "done"}
             /\ pc'[w] = "done" => ret'[w] = Returned(None)
             /\ assigneddata' = assigneddata
             /\ dataqueue' = dataqueue
             /\ redis' = redis]_vars

\* C15 witness: assign_datum for user 2 has returned None on project 1,
\* whose queues an earlier assignment emptied, while the queue of project 2
\* has a row; the only row is the one of the earlier assignment.
C15_Witness ==
    \E w \in Workers :
        /\ call[w].op = "assign_datum" /\ pc[w] = "done"
        /\ call[w].user = 2 /\ call[w].project = 1
        /\ ret[w] = Returned(None)
        /\ Members(1) = {} /\ Members(3) = {} /\ Members(2) # {}
        /\ BagCardinality(assigneddata) = 1
        /\ \A r \in BagToSet(assigneddata) : r.data # None /\ queues[r.queue].project = 1

\* C19 (SpecPools): the queue assign_datum(user, project) selects and pops
\* is a queue of that project, bound to that user or shared, and shared when
\* user is None; every AssignedData row with a datum links it to a queue of
\* the datum's project that is shared or bound to the row's user.
C19_QueueIsolation ==
    /\ \A w \in Workers :
         (call[w].op = "assign_datum" /\ first_nonempty_queue[w] # None)
         => LET sel == queues[first_nonempty_queue[w]]
            IN /\ sel.project = call[w].project
               /\ sel.user \in {call[w].user, None}
               /\ call[w].user = None => sel.user = None
    /\ \A r \in BagToSet(assigneddata) :
         r.data # None => /\ queues[r.queue].user \in {r.user, None}
                          /\ queues[r.queue].project = dataProject[r.data]

\* C19 witness: assign_datum(user 1, project 1) has returned a datum popped
\* from the shared queue of project 1 while the queue of user 2 (lower pk)
\* and the queue of project 2 have rows and nonempty Redis lists.
C19_Witness ==
    \E w \in Workers :
        /\ call[w].op = "assign_datum" /\ pc[w] = "done"
        /\ call[w].user = 1 /\ call[w].project = 1
        /\ ~ret[w].raised /\ ret[w].value # None
        /\ first_nonempty_queue[w] = 3
        /\ Members(1) # {} /\ redis[1] # <<>>
        /\ Members(2) # {} /\ redis[2] # <<>>

\* C16 (SpecSample): iter_sample(iterable, k) with k >= 0 on an input of n
\* items returns, if n >= k, a list of exactly k items taken from k distinct
\* positions of the input, and raises ValueError if n < k (fill_queue then
\* goes to its except branch).
C16_IterSample ==
    [][\A w \in Workers :
          (pc[w] = "fill_sample" /\ pc'[w] # "fill_sample")
          => LET q == call[w].queue
                 iterable == EligibleData(queues[q].project)
                 n == Len(iterable)
                 k == queues[q].length - current_queue_len[w]
                 results == queue_data'[w]
             IN k >= 0
                => IF n >= k
                     THEN /\ pc'[w] = "fill_create"
                          /\ Len(results) = k
                          /\ \E pos \in [1..k -> 1..n] :
                               /\ \A i, j \in 1..k : i # j => pos[i] # pos[j]
                               /\ \A i \in 1..k : results[i] = iterable[pos[i]]
                     ELSE pc'[w] = "fill_all"]_vars

\* C16 witness: a sample of k >= 1 items out of n > k that holds the last
\* item of the input, which only a replacement can have put there.
C16_Witness ==
    \E w \in Workers :
        /\ call[w].op = "fill_queue" /\ pc[w] = "fill_create"
        /\ LET iterable == EligibleData(queues[call[w].queue].project)
           IN /\ Len(queue_data[w]) >= 1
              /\ Len(queue_data[w]) = queues[call[w].queue].length - current_queue_len[w]
              /\ Len(iterable) > Len(queue_data[w])
              /\ iterable[Len(iterable)] \in Range(queue_data[w])

\* C17 (SpecPop): pop_queue on a queue whose Redis list is empty returns
\* None without raising and leaves the Redis lists, the DataQueue rows and
\* the AssignedData rows as they were.
C17_EmptyPopNoEffect ==
    [][\A w \in Workers :
          (/\ call[w].op = "pop_queue"
           /\ pc[w] = "pop_rpop" /\ pc'[w] # "pop_rpop"
           /\ redis[call[w].queue] = <<>>)
          => /\ pc'[w] = "done"
             /\ ret'[w] = Returned(None)
             /\ redis' = redis
             /\ dataqueue' = dataqueue
             /\ assigneddata' = assigneddata]_vars

\* C17 witness: a pop_queue call has returned None on the empty list while
\* the queue still has the DataQueue row of the datum the other worker popped
\* and has not deleted yet.
C17_Witness ==
    \E w \in Workers :
        /\ call[w].op = "pop_queue" /\ pc[w] = "done"
        /\ ret[w] = Returned(None) /\ data_id[w] = None
        /\ redis[1] = <<>>
        /\ \E v \in Workers : pc[v] = "pop_delete" /\ dataqueue[1][data_id[v]] = 1

\* C18 (SpecSync): when init_redis_queues has run against an empty Redis
\* with no other call in progress, the Redis list of every queue holds
\* exactly the data ids of the queue's DataQueue rows, each once; the list
\* of a queue without rows is empty and the call does not raise.
C18_InitLoadsMembership ==
    \A w \in Workers :
        (call[w].op = "init_redis_queues" /\ pc[w] = "done")
        => /\ ~ret[w].raised
           /\ \A q \in Queues : /\ Listed(q) = Members(q)
                                /\ Len(redis[q]) = Cardinality(Members(q))

\* C18 witness: init_redis_queues has ended with the two members of the
\* shared queue in its list and nothing in the list of the personal queue,
\* which has no row.
C18_Witness ==
    \E w \in Workers :
        /\ call[w].op = "init_redis_queues" /\ pc[w] = "done"
        /\ Members(1) = {} /\ redis[1] = <<>>
        /\ Cardinality(Members(2)) = 2 /\ Len(redis[2]) = 2

\* The data the pop_queue calls of worker w2 have popped, in the order of
\* the calls: those returned, then the one popped and not returned yet.
PoppedInOrder ==
    LET returned == SelectSeq(log, LAMBDA e : e.op = "pop_queue" /\ e.value # None)
    IN [i \in 1..Len(returned) |-> returned[i].value]
       \o (IF "w2" \in Holding THEN <<data_id["w2"]>> ELSE <<>>)

\* C20 (SpecFifo): after init_redis_queues has pushed the ids of a queue
\* (lpush queue.pk id1 id2 ...), successive pop_queue calls return the ids in
\* the order in which they were pushed, the first id pushed first, and the
\* ids not yet popped are still listed.
C20_Fifo ==
    (call["w1"].op = "init_redis_queues" /\ pc["w1"] = "done")
    => LET pushed == pipeline["w1"][1]
       IN /\ Len(PoppedInOrder) <= Len(pushed)
          /\ \A i \in 1..Len(PoppedInOrder) : PoppedInOrder[i] = pushed[i]
          /\ Len(redis[1]) = Len(pushed) - Len(PoppedInOrder)

\* C20 witness: NData + 1 ids were pushed, not in pk order, and pop_queue
\* calls have returned all of them and then None.
C20_Witness ==
    /\ call["w1"].op = "init_redis_queues" /\ pc["w1"] = "done"
    /\ Len(pipeline["w1"][1]) = NData + 1
    /\ pipeline["w1"][1][1] # 1
    /\ Len(PoppedInOrder) = NData + 1
    /\ \E i \in DOMAIN log : log[i].op = "pop_queue" /\ log[i].value = None
    /\ pc["w2"] = "idle"

====
